---------------------------- MODULE Spec2Model ----------------------------
(***************************************************************************)
(* A model of geoip-rs (src/src/main.rs): the request handler `index` with *)
(* its address resolution and response building, and the daily database   *)
(* refresh `update_db` run by the scheduler thread.                        *)
(*                                                                         *)
(* Strings are sequences of one-character strings, so that parsing and     *)
(* splitting are computed and not assumed.  The token "xE9" stands for a   *)
(* header byte outside visible ASCII.                                      *)
(***************************************************************************)
EXTENDS Integers, Sequences, FiniteSets, TLC

(***************************************************************************)
(* Option<T>: None, or Some(v) as a one-field record.                      *)
(***************************************************************************)
None == [none |-> TRUE]
Some(v) == [some |-> v]
IsSome(o) == "some" \in DOMAIN o
Unwrap(o) == o.some

(***************************************************************************)
(* Text helpers.                                                           *)
(***************************************************************************)
Digits == {"0", "1", "2", "3", "4", "5", "6", "7", "8", "9"}
HexDigits == Digits \cup {"a", "b", "c", "d", "e", "f"}

DigitVal(c) ==
    CASE c = "0" -> 0 [] c = "1" -> 1 [] c = "2" -> 2 [] c = "3" -> 3
      [] c = "4" -> 4 [] c = "5" -> 5 [] c = "6" -> 6 [] c = "7" -> 7
      [] c = "8" -> 8 [] c = "9" -> 9

RECURSIVE DecVal(_)
DecVal(s) ==
    IF s = <<>> THEN 0
    ELSE 10 * DecVal(SubSeq(s, 1, Len(s) - 1)) + DigitVal(s[Len(s)])

\* str::split(sep): the segments between occurrences of sep, at least one.
RECURSIVE Split(_, _)
Split(s, sep) ==
    IF \A i \in 1..Len(s) : s[i] # sep THEN <<s>>
    ELSE LET i == CHOOSE k \in 1..Len(s) :
                      s[k] = sep /\ \A j \in 1..(k - 1) : s[j] # sep
         IN  <<SubSeq(s, 1, i - 1)>> \o Split(SubSeq(s, i + 1, Len(s)), sep)

\* One decimal octet as std's parser reads it: 1 to 3 digits, no zero
\* prefix (std since 1.53), value at most 255.
IsOctet(p) ==
    /\ Len(p) \in 1..3
    /\ \A i \in 1..Len(p) : p[i] \in Digits
    /\ (Len(p) > 1 => p[1] # "0")
    /\ DecVal(p) <= 255

\* ip_address.parse::<Ipv4Addr>().is_ok()
IsIpv4(s) ==
    LET parts == Split(s, ".")
    IN  Len(parts) = 4 /\ \A i \in 1..4 : IsOctet(parts[i])

\* One 16-bit group: 1 to 4 hexadecimal digits.
IsHexGroup(p) ==
    /\ Len(p) \in 1..4
    /\ \A i \in 1..Len(p) : p[i] \in HexDigits

\* The number of 16-bit groups a colon-separated list stands for, or -1 if
\* it is malformed; only the last item may be a dotted IPv4 tail (2 groups).
GroupCount(gs) ==
    IF gs = <<>> THEN 0
    ELSE IF \E i \in 1..(Len(gs) - 1) : ~IsHexGroup(gs[i]) THEN -1
    ELSE IF IsHexGroup(gs[Len(gs)]) THEN Len(gs)
    ELSE IF IsIpv4(gs[Len(gs)]) THEN Len(gs) + 1
    ELSE -1

Groups(s) == IF s = <<>> THEN <<>> ELSE Split(s, ":")

\* ip_address.parse::<Ipv6Addr>().is_ok()
IsIpv6(s) ==
    LET gaps == {i \in 1..(Len(s) - 1) : s[i] = ":" /\ s[i + 1] = ":"}
    IN  IF gaps = {} THEN GroupCount(Groups(s)) = 8
        ELSE IF Cardinality(gaps) > 1 THEN FALSE
        ELSE LET i == CHOOSE k \in gaps : TRUE
                 head == Groups(SubSeq(s, 1, i - 1))
                 tail == Groups(SubSeq(s, i + 2, Len(s)))
             IN  /\ \A k \in 1..Len(head) : IsHexGroup(head[k])
                 /\ GroupCount(tail) >= 0
                 /\ Len(head) + GroupCount(tail) <= 7

\* HeaderValue::to_str(): Ok only if every byte is visible ASCII.
VisibleAscii(s) == \A i \in 1..Len(s) : s[i] # "xE9"


HexVal(c) ==
    CASE c \in Digits -> DigitVal(c)
      [] c = "a" -> 10 [] c = "b" -> 11 [] c = "c" -> 12
      [] c = "d" -> 13 [] c = "e" -> 14 [] c = "f" -> 15

RECURSIVE HexGroupVal(_)
HexGroupVal(s) ==
    IF s = <<>> THEN 0
    ELSE 16 * HexGroupVal(SubSeq(s, 1, Len(s) - 1)) + HexVal(s[Len(s)])

Octets(s) == LET parts == Split(s, ".") IN [i \in 1..4 |-> DecVal(parts[i])]

\* The 16-bit groups of a well-formed colon-separated list.
GroupVals(gs) ==
    IF gs = <<>> THEN <<>>
    ELSE IF IsHexGroup(gs[Len(gs)]) THEN [i \in 1..Len(gs) |-> HexGroupVal(gs[i])]
    ELSE LET o == Octets(gs[Len(gs)])
         IN  [i \in 1..(Len(gs) - 1) |-> HexGroupVal(gs[i])]
                 \o <<o[1] * 256 + o[2], o[3] * 256 + o[4]>>

Zeros(n) == [i \in 1..n |-> 0]

\* ip_address.parse::<IpAddr>(): the address a literal denotes (V4 first,
\* then V6), or None.
ParseIpAddr(s) ==
    IF IsIpv4(s) THEN Some([v |-> 4, bits |-> Octets(s)])
    ELSE IF IsIpv6(s) THEN
        LET gaps == {i \in 1..(Len(s) - 1) : s[i] = ":" /\ s[i + 1] = ":"}
        IN  IF gaps = {} THEN Some([v |-> 6, bits |-> GroupVals(Groups(s))])
            ELSE LET i == CHOOSE k \in gaps : TRUE
                     head == GroupVals(Groups(SubSeq(s, 1, i - 1)))
                     tail == GroupVals(Groups(SubSeq(s, i + 2, Len(s))))
                 IN  Some([v |-> 6,
                           bits |-> head \o Zeros(8 - Len(head) - Len(tail)) \o tail])
    ELSE None

(***************************************************************************)
(* The outcome of a call: a value, or a panic that unwinds the caller.     *)
(***************************************************************************)
Ok(v) == [ok |-> v]
Panic(msg, line) == [panic |-> msg, line |-> line]
IsOk(r) == "ok" \in DOMAIN r
IsPanic(r) == "panic" \in DOMAIN r

(***************************************************************************)
(* fn ip_address_to_resolve(ip, headers, remote_addr) -> String            *)
(* headers is the request's header map, of which the two proxy headers are *)
(* kept: [realip, fwd], each an Option.                                    *)
(***************************************************************************)
HeaderGet(headers, name) ==
    IF name = "X-Real-IP" THEN headers.realip
    ELSE IF name = "X-Forwarded-For" THEN headers.fwd
    ELSE None

\* ip_port.split(':').take(1).last().unwrap()
HostSegment(ip_port) == Split(ip_port, ":")[1]

\* A faulty variant: the real-IP header is consulted before the query.
ip_address_to_resolve_HeaderFirst(ip, headers, remote_addr) ==
    IF IsSome(HeaderGet(headers, "X-Real-IP")) /\ VisibleAscii(Unwrap(headers.realip))
    THEN Ok(Unwrap(headers.realip))
    ELSE IF IsSome(ip) /\ (IsIpv4(Unwrap(ip)) \/ IsIpv6(Unwrap(ip))) THEN Ok(Unwrap(ip))
    ELSE IF IsSome(remote_addr) THEN Ok(HostSegment(Unwrap(remote_addr)))
    ELSE Panic("unable to find ip address to resolve", 97)

\* A faulty variant: with no source at all the empty string is the address.
ip_address_to_resolve_EmptyDefault(ip, headers, remote_addr) ==
    IF IsSome(ip) /\ (IsIpv4(Unwrap(ip)) \/ IsIpv6(Unwrap(ip))) THEN Ok(Unwrap(ip))
    ELSE IF IsSome(HeaderGet(headers, "X-Real-IP")) THEN
        IF VisibleAscii(Unwrap(HeaderGet(headers, "X-Real-IP")))
        THEN Ok(Unwrap(HeaderGet(headers, "X-Real-IP")))
        ELSE Panic("unwrap on Err: ToStrError", 90)
    ELSE IF IsSome(remote_addr) THEN Ok(HostSegment(Unwrap(remote_addr)))
    ELSE Ok(<<>>)

ip_address_to_resolve(ip, headers, remote_addr) ==
    IF IsSome(ip) /\ (IsIpv4(Unwrap(ip)) \/ IsIpv6(Unwrap(ip))) THEN Ok(Unwrap(ip))
    ELSE IF IsSome(HeaderGet(headers, "X-Real-IP")) THEN
        IF VisibleAscii(Unwrap(HeaderGet(headers, "X-Real-IP")))
        THEN Ok(Unwrap(HeaderGet(headers, "X-Real-IP")))
        ELSE Panic("unwrap on Err: ToStrError", 90)
    ELSE IF IsSome(remote_addr) THEN Ok(HostSegment(Unwrap(remote_addr)))
    ELSE Panic("unable to find ip address to resolve", 97)

\* fn get_language(lang) -> String
get_language(lang) == IF IsSome(lang) THEN Unwrap(lang) ELSE "en"

(***************************************************************************)
(* Response building.  A name map (BTreeMap<&str, &str>) is a function     *)
(* from language keys to names.                                            *)
(***************************************************************************)
NamesGet(names, language) ==
    IF language \in DOMAIN names THEN Some(names[language]) ELSE None

\* A faulty variant: a missing language falls back to any name of the map.
LocalizedName_AnyLanguage(entity, language) ==
    IF ~IsSome(entity) THEN ""
    ELSE IF ~IsSome(Unwrap(entity).names) THEN ""
    ELSE LET names == Unwrap(Unwrap(entity).names)
         IN  IF language \in DOMAIN names THEN names[language]
             ELSE IF DOMAIN names = {} THEN ""
             ELSE names[CHOOSE l \in DOMAIN names : TRUE]

\* entity.and_then(|e| e.names.as_ref()).and_then(|names| names.get(language))
\*     .map(|s| s.to_string()).unwrap_or("".to_string())
LocalizedName(entity, language) ==
    IF ~IsSome(entity) THEN ""
    ELSE IF ~IsSome(Unwrap(entity).names) THEN ""
    ELSE IF ~IsSome(NamesGet(Unwrap(Unwrap(entity).names), language)) THEN ""
    ELSE Unwrap(NamesGet(Unwrap(Unwrap(entity).names), language))

\* fn subdiv_query(div, language) -> String
subdiv_query(div, language) == LocalizedName(div, language)

\* geoip.subdivisions.as_ref().filter(|s| !s.is_empty()).and_then(|s| s.get(0))
Region(geoip) ==
    IF IsSome(geoip.subdivisions) /\ Unwrap(geoip.subdivisions) # <<>>
    THEN Some(Unwrap(geoip.subdivisions)[1])
    ELSE None

\* A faulty variant: the province is the last subdivision, not the second.
Province_Last(geoip) ==
    IF IsSome(geoip.subdivisions) /\ Len(Unwrap(geoip.subdivisions)) > 1
    THEN Some(Unwrap(geoip.subdivisions)[Len(Unwrap(geoip.subdivisions))])
    ELSE None

\* geoip.subdivisions.as_ref().filter(|s| s.len() > 1).and_then(|s| s.get(1))
Province(geoip) ==
    IF IsSome(geoip.subdivisions) /\ Len(Unwrap(geoip.subdivisions)) > 1
    THEN Some(Unwrap(geoip.subdivisions)[2])
    ELSE None

\* entity.and_then(|e| e.<field>).unwrap_or(dflt)
FieldOr(entity, field, dflt) ==
    IF IsSome(entity) /\ IsSome(Unwrap(entity)[field])
    THEN Unwrap(Unwrap(entity)[field])
    ELSE dflt

\* The Ok(geoip) arm of index: the serialized ResolvedIPResponse.
ResolvedIPResponse(ip_address, geoip, language) ==
    [ip_address     |-> ip_address,
     latitude       |-> FieldOr(geoip.location, "latitude", 0),
     longitude      |-> FieldOr(geoip.location, "longitude", 0),
     postal_code    |-> FieldOr(geoip.postal, "code", ""),
     continent_code |-> FieldOr(geoip.continent, "code", ""),
     country_code   |-> FieldOr(geoip.country, "iso_code", ""),
     country_name   |-> LocalizedName(geoip.country, language),
     region_code    |-> FieldOr(Region(geoip), "iso_code", ""),
     region_name    |-> subdiv_query(Region(geoip), language),
     province_code  |-> FieldOr(Province(geoip), "iso_code", ""),
     province_name  |-> subdiv_query(Province(geoip), language),
     city_name      |-> LocalizedName(geoip.city, language),
     timezone       |-> FieldOr(geoip.location, "time_zone", "")]

\* The Err(_) arm of index: the serialized NonResolvedIPResponse.
NonResolvedIPResponse(ip_address) == [ip_address |-> ip_address]

\* A faulty variant: the JSONP body lacks its leading semicolon and is sent
\* as JSON.
Framed_PlainCall(callback, json) ==
    IF IsSome(callback)
    THEN [status |-> 200,
          content_type |-> "application/json; charset=utf-8",
          body |-> <<Unwrap(callback), "(", json, ");">>]
    ELSE [status |-> 200,
          content_type |-> "application/json; charset=utf-8",
          body |-> <<json>>]

\* match query.callback: the status, content type and body of the response;
\* the body is the sequence of the pieces format! puts together.
Framed(callback, json) ==
    IF IsSome(callback)
    THEN [status |-> 200,
          content_type |-> "application/javascript; charset=utf-8",
          body |-> <<";", Unwrap(callback), "(", json, ");">>]
    ELSE [status |-> 200,
          content_type |-> "application/json; charset=utf-8",
          body |-> <<json>>]

(***************************************************************************)
(* Bounds of the model.                                                    *)
(***************************************************************************)
\* Timer ticks explored.
MaxTicks == 2
\* Longest subdivision list of a City record.
MaxSubdivs == 3

(***************************************************************************)
(* Program constants and configuration.                                    *)
(***************************************************************************)
\* const EDITIONS
EDITIONS == <<"GeoLite2-City">>
\* The array with one more element, for what the loop of update_db does
\* with a list of several editions.
LongerEditions == EDITIONS \o <<"GeoLite2-Country">>

\* format!("{}/{}.tar.gz", d, &ed.e), as a name inside the directory d
TarName(e) == e \o ".tar.gz"
\* format!("{}.mmdb", ed.e)
MmdbName(e) == e \o ".mmdb"

\* db_file_path(): its directory is d, its basename one of these: a name of
\* the operator's own, or the name the provider gives the database.
DbNames == {"city.mmdb", MmdbName(EDITIONS[1])}

\* The names that occur in the directory d.
AllNames ==
    DbNames \cup {TarName(LongerEditions[i]) : i \in 1..Len(LongerEditions)}
            \cup {MmdbName(LongerEditions[i]) : i \in 1..Len(LongerEditions)}

(***************************************************************************)
(* State.                                                                  *)
(***************************************************************************)
VARIABLES
    editions,   \* the elements of EDITIONS the binary was built with
    license,    \* env::var("GEOIP_LICENSE").is_ok()
    dbName,     \* basename of db_file_path()
    geo,        \* the City record the database holds for its known networks
    files,      \* directory d: name -> inode number, 0 if there is no file
    inodes,     \* inode number -> content
    handle,     \* the inode mapped by `db`, the Arc<Reader<Mmap>> of main
    upc,        \* where the scheduler thread is in update_db
    cyc,        \* locals of the running update_db call, and its history
    lastCycle,  \* how the last finished update_db call ended
    timerAlive, \* the scheduler thread has not unwound
    ticks,      \* number of times the job was started
    netCalls,   \* number of outbound requests made
    installed,  \* some rename onto the live path succeeded
    inflight,   \* the request being handled: what index holds after line 118
    resp        \* the outcome of the last handled request

vars == <<editions, license, dbName, geo, files, inodes, handle, upc, cyc, lastCycle,
          timerAlive, ticks, netCalls, installed, inflight, resp>>

configVars == <<editions, license, dbName, geo>>
refreshVars == <<files, inodes, upc, cyc, lastCycle, timerAlive, ticks,
                 netCalls, installed>>
requestVars == <<inflight, resp>>

(***************************************************************************)
(* File contents.                                                          *)
(***************************************************************************)
\* A database file of generation g ("startup": the one main opened; the
\* others come from the provider); whole = FALSE while partly written.
Mmdb(g, whole) == [kind |-> "mmdb", gen |-> g, whole |-> whole]
\* A .tar.gz file: the entries whose header is there; cut = TRUE if the
\* stream ends early, inside or right after the last of them.
TarGz(entries, cut) == [kind |-> "targz", entries |-> entries, cut |-> cut]
EmptyFile == [kind |-> "empty"]

\* The file at a name: "absent", or its inode number and content.
FileAt(fs, ino, name) ==
    IF fs[name] = 0 THEN [absent |-> TRUE]
    ELSE [inode |-> fs[name], content |-> ino[fs[name]]]

LiveFile == FileAt(files, inodes, dbName)

\* An inode lives while a name or an open file refers to it.
Free == [kind |-> "free"]

Collect(fs, ino, held) ==
    [n \in 1..Len(ino) |->
        IF n \in held \/ \E name \in AllNames : fs[name] = n THEN ino[n] ELSE Free]

\* The number of a new inode: the lowest one that is free.
NewInode(ino) ==
    IF \E n \in 1..Len(ino) : ino[n] = Free
    THEN CHOOSE n \in 1..Len(ino) : ino[n] = Free /\ \A m \in 1..(n - 1) : ino[m] # Free
    ELSE Len(ino) + 1

\* The inode table with content c at inode n, which may be a new one.
Store(ino, n, c) ==
    IF n = Len(ino) + 1 THEN Append(ino, c) ELSE [ino EXCEPT ![n] = c]

InitFiles(name) == [n \in AllNames |-> IF n = name THEN 1 ELSE 0]
InitInodes == <<Mmdb("startup", TRUE)>>

(***************************************************************************)
(* The database as index sees it.                                          *)
(***************************************************************************)
V4(a, b, c, d) == [v |-> 4, bits |-> <<a, b, c, d>>]

\* The addresses every generation of the database has a record for.
KnownAddrs == {V4(1, 2, 3, 4), V4(7, 7, 7, 7)}

\* data.db.lookup(addr) on a mapped file with this content: the outcomes.
\* A file that was cut under the mapping reads as anything, or faults.
Lookup(content, addr) ==
    IF content = EmptyFile \/ content.kind # "mmdb" \/ ~content.whole
    THEN {[err |-> "InvalidDatabaseError"], [fault |-> "SIGBUS"]}
    ELSE IF addr \in KnownAddrs THEN {[city |-> geo, gen |-> content.gen]}
    ELSE {[err |-> "AddressNotFoundError"]}

(***************************************************************************)
(* async fn index(req, data, query) -> HttpResponse                        *)
(* The handler holds no lock and runs on a worker thread beside the        *)
(* scheduler thread: IndexStart is lines 117-118 with the handle the       *)
(* worker was given, IndexFinish lines 120-213.                            *)
(***************************************************************************)
NoRequest == [idle |-> TRUE]
NoResponse == [nothing |-> TRUE]

\* The number of update_db calls in a row, up to now, that returned Ok(())
\* after installing a database.
Streak == IF IsSome(lastCycle) THEN Unwrap(lastCycle).streak ELSE 0

\* A faulty variant: the handler reads whatever file is at the live path.
RequestDb_LivePath == files[dbName]

\* data.db: the clone of the Arc made at line 319, the Reader of line 289.
RequestDb == handle

IndexStart(ip, headers, remote_addr, lang, callback) ==
    /\ inflight = NoRequest
    /\ LET query == [ip |-> ip, lang |-> lang, callback |-> callback]
           request == [query |-> query, headers |-> headers,
                       remote_addr |-> remote_addr]
           language == get_language(lang)
           ip_address == ip_address_to_resolve(ip, headers, remote_addr)
       IN  IF IsPanic(ip_address)
           THEN /\ resp' = [panic |-> ip_address.panic, line |-> ip_address.line,
                            request |-> request]
                /\ inflight' = NoRequest
           ELSE /\ resp' = NoResponse
                /\ inflight' = [request |-> request,
                                language |-> language,
                                ip_address |-> ip_address.ok,
                                db |-> RequestDb,
                                mapped |-> inodes[RequestDb],
                                streak |-> Streak,
                                liveAtStart |-> files[dbName],
                                afterInstall |-> installed]
    /\ UNCHANGED <<configVars, refreshVars, handle>>

\* A faulty variant: an address that does not parse is answered as a miss.
IndexOutcome_NoParseCheck(r, addr, out) ==
    IF "city" \in DOMAIN out
    THEN [served |-> Framed(r.request.query.callback,
                            ResolvedIPResponse(r.ip_address, out.city, r.language)),
          resolved |-> TRUE, gen |-> out.gen, started |-> r]
    ELSE [served |-> Framed(r.request.query.callback,
                            NonResolvedIPResponse(r.ip_address)),
          resolved |-> FALSE, gen |-> "", started |-> r]

\* Lines 120-213 for one outcome of the lookup.
IndexOutcome(r, addr, out) ==
    IF ~IsSome(addr)
    THEN [panic |-> "unwrap on Err: AddrParseError", line |-> 120,
          request |-> r.request]
    ELSE IF "fault" \in DOMAIN out
    THEN [fault |-> out.fault, request |-> r.request]
    ELSE IF "city" \in DOMAIN out
    THEN [served |-> Framed(r.request.query.callback,
                            ResolvedIPResponse(r.ip_address, out.city, r.language)),
          resolved |-> TRUE, gen |-> out.gen, started |-> r]
    ELSE [served |-> Framed(r.request.query.callback,
                            NonResolvedIPResponse(r.ip_address)),
          resolved |-> FALSE, gen |-> "", started |-> r]

IndexFinish ==
    /\ inflight # NoRequest
    /\ LET addr == ParseIpAddr(inflight.ip_address)
       IN  \E out \in (IF IsSome(addr) THEN Lookup(inodes[inflight.db], Unwrap(addr))
                       ELSE {[err |-> "unreached"]}) :
               resp' = IndexOutcome(inflight, addr, out)
    /\ inflight' = NoRequest
    /\ UNCHANGED <<configVars, refreshVars, handle>>

(***************************************************************************)
(* What the provider may answer to one download request.                   *)
(***************************************************************************)
Entry(dir, name, g) == [path |-> <<dir, name>>, gen |-> g]

\* The archives the provider may send for edition ed: empty, without a
\* database entry, the usual one, and one with two entries of the expected
\* name.
Archives(ed) ==
    LET notice == Entry(ed, "COPYRIGHT.txt", "provider")
        db == Entry(ed, MmdbName(ed), "provider")
        db2 == Entry("previous", MmdbName(ed), "provider-previous")
    IN  {<<>>, <<notice>>, <<notice, db>>, <<db, db2>>}

\* ureq::get(url).call(): a transport failure, a status >= 400, or a
\* response: its Content-Length usable or not, its body whole or cut short.
Responses(ed) ==
    {[fail |-> "transport"], [fail |-> "status"], [len |-> FALSE]}
        \cup {[len |-> TRUE, archive |-> a, truncated |-> t] :
                  a \in Archives(ed), t \in BOOLEAN}

\* e.path()?.ends_with(name), by components
PathEndsWith(path, name) == path # <<>> /\ path[Len(path)] = name

\* e.path()?.strip_prefix(e.path()?.parent().unwrap())
StripParent(path) == path[Len(path)]

(***************************************************************************)
(* fn update_db() -> anyhow::Result<()>, run by the scheduler thread from  *)
(* the closure of main (lines 293-300), one action per call that can fail  *)
(* or that touches the directory.                                          *)
(***************************************************************************)
IdleCycle == [i |-> 0, resp |-> None, file |-> 0, archive |-> 0, pos |-> 0,
              dlname |-> "", before |-> None, unpacks |-> 0, renames |-> 0]

\* The call ends: Ok(()), an Err printed by the closure, or a panic that
\* unwinds the scheduler thread.  nf, ni: the directory it leaves.
Return(outcome, nf, ni) ==
    /\ files' = nf
    /\ inodes' = Collect(nf, ni, {handle})
    /\ upc' = IF outcome = "panic" THEN "dead" ELSE "idle"
    /\ timerAlive' = (outcome # "panic")
    /\ lastCycle' = Some([outcome |-> outcome,
                          reported |-> (outcome = "err"),
                          renames |-> cyc.renames,
                          streak |-> IF outcome = "ok" /\ cyc.renames > 0
                                     THEN Streak + 1 ELSE 0,
                          before |-> Unwrap(cyc.before),
                          after |-> FileAt(nf, ni, dbName)])
    /\ cyc' = IdleCycle

\* A faulty variant: the refresh runs whether or not a license is set.
LicenseConfigured_Always == TRUE

\* if let Ok(license) = env::var("GEOIP_LICENSE")
LicenseConfigured == license

\* sched.every(1.days()).run(..) fires; line 236.
Tick ==
    /\ timerAlive
    /\ upc = "idle"
    /\ ticks < MaxTicks
    /\ ticks' = ticks + 1
    /\ IF LicenseConfigured
       THEN /\ upc' = "call"
            /\ cyc' = [IdleCycle EXCEPT !.i = 1, !.before = Some(LiveFile)]
            /\ UNCHANGED <<lastCycle, timerAlive>>
       ELSE /\ lastCycle' = Some([outcome |-> "ok", reported |-> FALSE,
                                  renames |-> 0, streak |-> 0,
                                  before |-> LiveFile,
                                  after |-> LiveFile])
            /\ UNCHANGED <<upc, cyc, timerAlive>>
    /\ UNCHANGED <<configVars, files, inodes, handle, netCalls, installed,
                   requestVars>>

\* Line 246: ureq::get(urls[i]).call()?
Call ==
    /\ upc = "call"
    /\ netCalls' = netCalls + 1
    /\ \E r \in Responses(editions[cyc.i]) :
          IF "fail" \in DOMAIN r
          THEN Return("err", files, inodes)
          ELSE /\ upc' = "create"
               /\ cyc' = [cyc EXCEPT !.resp = Some(r)]
               /\ UNCHANGED <<files, inodes, lastCycle, timerAlive>>
    /\ UNCHANGED <<configVars, handle, ticks, installed, requestVars>>

\* Line 249: std::fs::File::create(&dlpath)? truncates the file in place, or
\* makes a new one.
Create ==
    /\ upc = "create"
    /\ LET dest == TarName(editions[cyc.i])
       IN  \E ok \in BOOLEAN :
              IF ~ok THEN Return("err", files, inodes)
              ELSE /\ IF files[dest] # 0
                      THEN /\ inodes' = [inodes EXCEPT ![files[dest]] = EmptyFile]
                           /\ files' = files
                           /\ cyc' = [cyc EXCEPT !.file = files[dest]]
                      ELSE /\ inodes' = Store(inodes, NewInode(inodes), EmptyFile)
                           /\ files' = [files EXCEPT ![dest] = NewInode(inodes)]
                           /\ cyc' = [cyc EXCEPT !.file = NewInode(inodes)]
                   /\ upc' = "len"
                   /\ UNCHANGED <<lastCycle, timerAlive>>
    /\ UNCHANGED <<configVars, handle, ticks, netCalls, installed, requestVars>>

\* Lines 251-252: resp.header("Content-Length").and_then(parse).unwrap()
ContentLength ==
    /\ upc = "len"
    /\ IF Unwrap(cyc.resp).len
       THEN /\ upc' = "read"
            /\ UNCHANGED <<files, inodes, cyc, lastCycle, timerAlive>>
       ELSE Return("panic", files, inodes)
    /\ UNCHANGED <<configVars, handle, ticks, netCalls, installed, requestVars>>

\* Lines 254-259: read_to_end(&mut content)? then file.write_all(&content)?
\* A body cut short reads as an error or as the bytes that came.
ReadWrite ==
    /\ upc = "read"
    /\ LET r == Unwrap(cyc.resp)
       IN  \E ok \in BOOLEAN :
              IF ~ok THEN Return("err", files, inodes)
              ELSE /\ inodes' = [inodes EXCEPT
                                    ![cyc.file] = TarGz(r.archive, r.truncated)]
                   /\ upc' = "open"
                   /\ UNCHANGED <<files, cyc, lastCycle, timerAlive>>
    /\ UNCHANGED <<configVars, handle, ticks, netCalls, installed, requestVars>>

\* Lines 261-262: File::open(&dlpath)?, archive.entries()?
OpenArchive ==
    /\ upc = "open"
    /\ LET dest == TarName(editions[cyc.i])
       IN  \E ok \in BOOLEAN :
              IF ~ok \/ files[dest] = 0 THEN Return("err", files, inodes)
              ELSE /\ upc' = "entries"
                   /\ cyc' = [cyc EXCEPT !.archive = files[dest], !.pos = 0]
                   /\ UNCHANGED <<files, inodes, lastCycle, timerAlive>>
    /\ UNCHANGED <<configVars, handle, ticks, netCalls, installed, requestVars>>

\* Lines 262-268: the next entry of the archive, and at its end the next
\* edition (line 239) or return Ok(()) (line 276).
NextEntry ==
    /\ upc = "entries"
    /\ LET content == inodes[cyc.archive]
           entries == IF content.kind = "targz" THEN content.entries ELSE <<>>
           cut == IF content.kind = "targz" THEN content.cut ELSE TRUE
       IN  IF cyc.pos < Len(entries)
           THEN IF PathEndsWith(entries[cyc.pos + 1].path, MmdbName(editions[cyc.i]))
                THEN /\ upc' = "unpack"
                     /\ cyc' = [cyc EXCEPT
                                   !.dlname = StripParent(entries[cyc.pos + 1].path)]
                     /\ UNCHANGED <<files, inodes, lastCycle, timerAlive>>
                ELSE /\ cyc' = [cyc EXCEPT !.pos = cyc.pos + 1]
                     /\ UNCHANGED <<files, inodes, upc, lastCycle, timerAlive>>
           ELSE IF cut THEN Return("err", files, inodes)
           ELSE IF cyc.i < Len(editions)
                THEN /\ upc' = "call"
                     /\ cyc' = [cyc EXCEPT !.i = cyc.i + 1]
                     /\ UNCHANGED <<files, inodes, lastCycle, timerAlive>>
                ELSE Return("ok", files, inodes)
    /\ UNCHANGED <<configVars, handle, ticks, netCalls, installed, requestVars>>

\* A faulty variant: the file at dlname is truncated and rewritten in place.
UnpackCreate_InPlace ==
    /\ upc = "unpack"
    /\ LET e == inodes[cyc.archive].entries[cyc.pos + 1]
       IN  \E ok \in BOOLEAN :
              IF ~ok THEN Return("err", files, inodes)
              ELSE /\ IF files[cyc.dlname] # 0
                      THEN /\ inodes' = [inodes EXCEPT
                                            ![files[cyc.dlname]] = Mmdb(e.gen, FALSE)]
                           /\ files' = files
                      ELSE /\ inodes' = Store(inodes, NewInode(inodes),
                                              Mmdb(e.gen, FALSE))
                           /\ files' = [files EXCEPT
                                           ![cyc.dlname] = NewInode(inodes)]
                   /\ upc' = "copy"
                   /\ cyc' = [cyc EXCEPT !.unpacks = cyc.unpacks + 1]
                   /\ UNCHANGED <<lastCycle, timerAlive>>
    /\ UNCHANGED <<configVars, handle, ticks, netCalls, installed, requestVars>>

\* Line 270, e.unpack(&dlname)?, first half: tar unlinks what is at dlname
\* and creates the file anew.
UnpackCreate ==
    /\ upc = "unpack"
    /\ LET e == inodes[cyc.archive].entries[cyc.pos + 1]
       IN  \E ok \in BOOLEAN :
              IF ~ok THEN Return("err", files, inodes)
              ELSE /\ LET nf == [files EXCEPT ![cyc.dlname] = 0]
                          ni == Collect(nf, inodes, {handle, cyc.file, cyc.archive})
                      IN  /\ inodes' = Store(ni, NewInode(ni), Mmdb(e.gen, FALSE))
                          /\ files' = [nf EXCEPT ![cyc.dlname] = NewInode(ni)]
                   /\ upc' = "copy"
                   /\ cyc' = [cyc EXCEPT !.unpacks = cyc.unpacks + 1]
                   /\ UNCHANGED <<lastCycle, timerAlive>>
    /\ UNCHANGED <<configVars, handle, ticks, netCalls, installed, requestVars>>

\* Line 270, second half: the entry's bytes are copied into the new file;
\* the copy stops at an I/O error or where a cut archive ends.
UnpackCopy ==
    /\ upc = "copy"
    /\ LET content == inodes[cyc.archive]
           last == cyc.pos + 1 = Len(content.entries)
       IN  \E ok \in BOOLEAN :
              IF ~ok \/ (content.cut /\ last) THEN Return("err", files, inodes)
              ELSE /\ inodes' = [inodes EXCEPT ![files[cyc.dlname]].whole = TRUE]
                   /\ upc' = "rename"
                   /\ UNCHANGED <<files, cyc, lastCycle, timerAlive>>
    /\ UNCHANGED <<configVars, handle, ticks, netCalls, installed, requestVars>>

\* Line 271: std::fs::rename(&dlname, db_file_path())?
Rename ==
    /\ upc = "rename"
    /\ \E ok \in BOOLEAN :
          IF ~ok
          THEN /\ Return("err", files, inodes)
               /\ UNCHANGED installed
          ELSE /\ LET nf == [n \in AllNames |->
                                 IF n = dbName THEN files[cyc.dlname]
                                 ELSE IF n = cyc.dlname THEN 0
                                 ELSE files[n]]
                  IN  /\ files' = nf
                      /\ inodes' = Collect(nf, inodes, {handle, cyc.file, cyc.archive})
               /\ installed' = TRUE
               /\ upc' = "entries"
               /\ cyc' = [cyc EXCEPT !.pos = cyc.pos + 1,
                                     !.renames = cyc.renames + 1]
               /\ UNCHANGED <<lastCycle, timerAlive>>
    /\ UNCHANGED <<configVars, handle, ticks, netCalls, requestVars>>

Refresh ==
    \/ Tick \/ Call \/ Create \/ ContentLength \/ ReadWrite \/ OpenArchive
    \/ NextEntry \/ UnpackCreate \/ UnpackCopy \/ Rename

(***************************************************************************)
(* Inputs.                                                                 *)
(***************************************************************************)
S1234 == <<"1", ".", "2", ".", "3", ".", "4">>
S5555 == <<"5", ".", "5", ".", "5", ".", "5">>
S9999 == <<"9", ".", "9", ".", "9", ".", "9">>
SLoop6 == <<":", ":", "1">>
SMapped == <<":", ":", "f", "f", "f", "f", ":", "1", ".", "2", ".", "3", ".", "4">>
SNotIp == <<"n", "o", "t", "-", "a", "n", "-", "i", "p">>
SShort == <<"1", ".", "2", ".", "3">>
SBigOctet == <<"2", "5", "6", ".", "1", ".", "1", ".", "1">>
SNonAscii == <<"c", "a", "f", "xE9">>
SPeer4 == <<"7", ".", "7", ".", "7", ".", "7", ":", "8", "0">>
SPeer4NoPort == <<"7", ".", "7", ".", "7", ".", "7">>
SPeer6 == <<"[", ":", ":", "1", "]", ":", "8", "0">>

\* query.ip
QueryIps ==
    {None, Some(S1234), Some(S5555), Some(SLoop6), Some(SMapped), Some(SNotIp),
     Some(SShort), Some(SBigOctet)}

\* The request's proxy headers.
Headers ==
    [realip : {None, Some(S9999), Some(S1234), Some(SNotIp), Some(SNonAscii)},
     fwd : {None, Some(S5555)}]

\* req.connection_info().remote_addr()
Peers == {None, Some(SPeer4), Some(SPeer4NoPort), Some(SPeer6)}

\* query.lang, query.callback
Langs == {None, Some("en"), Some("de"), Some("fr")}
Callbacks == {None, Some("cb")}

NoHeaders == [realip |-> None, fwd |-> None]

(***************************************************************************)
(* City records (maxminddb::geoip2::City).                                 *)
(***************************************************************************)
EmptyMap == [l \in {} |-> ""]

SubA == [iso_code |-> Some("BY"),
         names |-> Some([l \in {"en", "de"} |->
                            IF l = "en" THEN "Bavaria" ELSE "Bayern"])]
SubB == [iso_code |-> Some("OB"),
         names |-> Some([l \in {"de"} |-> "Oberbayern"])]
SubC == [iso_code |-> None, names |-> None]

RECURSIVE SeqsUpTo(_, _)
SeqsUpTo(S, n) ==
    IF n = 0 THEN {<<>>}
    ELSE LET shorter == SeqsUpTo(S, n - 1)
         IN  shorter \cup {Append(q, x) : q \in shorter, x \in S}

Subdivisions == {None} \cup {Some(l) : l \in SeqsUpTo({SubA, SubB, SubC}, MaxSubdivs)}

Countries ==
    {None,
     Some([iso_code |-> None, names |-> None]),
     Some([iso_code |-> Some("DE"), names |-> Some(EmptyMap)]),
     Some([iso_code |-> Some("DE"), names |-> Some([l \in {"de"} |-> "Deutschland"])]),
     Some([iso_code |-> Some("DE"),
           names |-> Some([l \in {"en", "de"} |->
                              IF l = "en" THEN "Germany" ELSE "Deutschland"])])}

Cities ==
    {None,
     Some([names |-> None]),
     Some([names |-> Some([l \in {"en"} |-> "Munich"])]),
     Some([names |-> Some([l \in {"en", "de"} |->
                              IF l = "en" THEN "Munich" ELSE "Muenchen"])])}

\* location, postal and continent: absent, present without values, present.
Rests ==
    {[location |-> None, postal |-> None, continent |-> None],
     [location |-> Some([latitude |-> None, longitude |-> None, time_zone |-> None]),
      postal |-> Some([code |-> None]),
      continent |-> Some([code |-> None])],
     [location |-> Some([latitude |-> Some(48), longitude |-> Some(11),
                         time_zone |-> Some("Europe/Berlin")]),
      postal |-> Some([code |-> Some("80331")]),
      continent |-> Some([code |-> Some("EU")])]}

City(rest, country, subdivisions, city) ==
    [location |-> rest.location, postal |-> rest.postal,
     continent |-> rest.continent, country |-> country,
     subdivisions |-> subdivisions, city |-> city]

Records ==
    {City(r, c, s, t) : r \in Rests, c \in Countries, s \in Subdivisions, t \in Cities}

\* The record of the database of the refresh scenarios.
Munich == CHOOSE g \in Records :
              /\ IsSome(g.location) /\ IsSome(Unwrap(g.location).latitude)
              /\ g.subdivisions = Some(<<SubA, SubB>>)
              /\ LocalizedName(g.country, "en") = "Germany"
              /\ LocalizedName(g.city, "de") = "Muenchen"

(***************************************************************************)
(* Specifications.                                                         *)
(***************************************************************************)
\* main: the database is opened on the configured path (line 289), the job
\* is scheduled (line 293) and the server starts (line 318).
InitWith(licenses, names, records) ==
    /\ editions = EDITIONS
    /\ license \in licenses
    /\ dbName \in names
    /\ geo \in records
    /\ files = InitFiles(dbName)
    /\ inodes = InitInodes
    /\ handle = 1
    /\ upc = "idle"
    /\ cyc = IdleCycle
    /\ lastCycle = None
    /\ timerAlive = TRUE
    /\ ticks = 0
    /\ netCalls = 0
    /\ installed = FALSE
    /\ inflight = NoRequest
    /\ resp = NoResponse

\* The server and the scheduler thread side by side.
Init == InitWith(BOOLEAN, DbNames, {Munich})

Serve ==
    \/ \E ip \in {None, Some(S1234)} :
           IndexStart(ip, NoHeaders, Some(SPeer4), None, None)
    \/ IndexFinish

Next == Refresh \/ Serve

Spec == Init /\ [][Next]_vars

\* The handler alone, over all request inputs.
InitIndex == InitWith({FALSE}, {"city.mmdb"}, {Munich})

NextIndex ==
    \/ \E ip \in QueryIps, headers \in Headers, remote_addr \in Peers,
          callback \in Callbacks :
           IndexStart(ip, headers, remote_addr, None, callback)
    \/ IndexFinish

SpecIndex == InitIndex /\ [][NextIndex]_vars

\* The handler alone, over all records and languages.
InitBuild == InitWith({FALSE}, {"city.mmdb"}, Records)

NextBuild ==
    \/ \E ip \in {Some(S1234), Some(S5555)}, lang \in Langs :
           IndexStart(ip, NoHeaders, Some(SPeer4), lang, None)
    \/ IndexFinish

SpecBuild == InitBuild /\ [][NextBuild]_vars

\* The scheduler thread alone, licensed, over a list of two editions.
InitEditions ==
    /\ editions = LongerEditions
    /\ license = TRUE
    /\ dbName = "city.mmdb"
    /\ geo = Munich
    /\ files = InitFiles(dbName)
    /\ inodes = InitInodes
    /\ handle = 1
    /\ upc = "idle"
    /\ cyc = IdleCycle
    /\ lastCycle = None
    /\ timerAlive = TRUE
    /\ ticks = 0
    /\ netCalls = 0
    /\ installed = FALSE
    /\ inflight = NoRequest
    /\ resp = NoResponse

SpecEditions == InitEditions /\ [][Refresh]_vars

(***************************************************************************)
(* Properties.                                                             *)
(***************************************************************************)
\* The JSON object of a served response, inside its JSONP frame if any.
JsonOf(served) ==
    IF Len(served.body) = 1 THEN served.body[1] ELSE served.body[4]

Served == "served" \in DOMAIN resp
Panicked == "panic" \in DOMAIN resp

\* The inputs that are IPv4 or IPv6 literals, by inspection.
S7777 == <<"7", ".", "7", ".", "7", ".", "7">>
ValidLiterals == {S1234, S5555, S9999, SLoop6, SMapped, S7777}

\* The part of each peer string before its first colon, by inspection.
PeerHost(peer) ==
    IF peer = SPeer4 \/ peer = SPeer4NoPort THEN S7777
    ELSE IF peer = SPeer6 THEN <<"[">>
    ELSE <<"?">>

HasValidQueryIp(request) ==
    IsSome(request.query.ip) /\ Unwrap(request.query.ip) \in ValidLiterals

\* C1: once some refresh cycle has installed a database file, a request that
\* starts afterwards is answered through a handle on the file that is at the
\* live path when the request starts, not the one opened at startup.
C1_RequestsAfterInstallUseNewGeneration ==
    (Served /\ resp.started.afterInstall)
        => resp.started.db = resp.started.liveAtStart

\* C2: a query-string ip that is an IPv4 or IPv6 literal is the address to
\* resolve, whatever the X-Real-IP header and the remote peer are: the
\* resolution neither panics nor picks another source.
C2_ValidQueryIpWins ==
    /\ (inflight # NoRequest /\ HasValidQueryIp(inflight.request))
           => inflight.ip_address = Unwrap(inflight.request.query.ip)
    /\ (Panicked /\ resp.line \in {90, 97}) => ~HasValidQueryIp(resp.request)

C2_Witness ==
    /\ inflight # NoRequest
    /\ inflight.request.query.ip = Some(SLoop6)
    /\ inflight.request.headers.realip = Some(S9999)
    /\ inflight.request.remote_addr = Some(SPeer4)
    /\ inflight.ip_address = SLoop6

\* C3: with the query ip absent or not a literal, the address to resolve is
\* the X-Real-IP value verbatim if the header is there; otherwise, with a
\* remote peer, it is the peer string up to its first colon.
C3_FallbackToHeaderThenPeer ==
    /\ (inflight # NoRequest /\ ~HasValidQueryIp(inflight.request))
           => IF IsSome(inflight.request.headers.realip)
              THEN inflight.ip_address = Unwrap(inflight.request.headers.realip)
              ELSE /\ IsSome(inflight.request.remote_addr)
                   /\ inflight.ip_address
                          = PeerHost(Unwrap(inflight.request.remote_addr))
    /\ (Panicked /\ resp.line \in {90, 97})
           => /\ ~IsSome(resp.request.headers.realip)
              /\ ~IsSome(resp.request.remote_addr)

\* C4: a refresh cycle that fails before any install leaves the file at the
\* live path as it was when the cycle started, and while nothing has been
\* installed requests are answered from the database opened at startup.
C4_FailedCycleLeavesLiveFile ==
    /\ (IsSome(lastCycle) /\ Unwrap(lastCycle).outcome # "ok"
                          /\ Unwrap(lastCycle).renames = 0)
           => Unwrap(lastCycle).after = Unwrap(lastCycle).before
    /\ (Served /\ resp.resolved /\ ~resp.started.afterInstall)
           => resp.gen = "startup"

\* C5: every served response, resolved or not, carries an ip_address that
\* is an IPv4 or IPv6 literal.
C5_ServedIpAddressIsLiteral ==
    Served => /\ "ip_address" \in DOMAIN JsonOf(resp.served)
              /\ JsonOf(resp.served).ip_address \in ValidLiterals

C5_Witness ==
    /\ Served
    /\ ~resp.resolved
    /\ resp.started.request.query.ip = Some(SNotIp)
    /\ resp.started.request.headers.realip = Some(S9999)
    /\ JsonOf(resp.served).ip_address = S9999

\* C6: a request whose address is not in the database, or is malformed for
\* the lookup, ends with status 200 and a body that holds ip_address only.
C6_MissIsServedUnresolved ==
    /\ (Panicked => resp.line # 120)
    /\ (Served /\ ~resp.resolved)
           => /\ resp.served.status = 200
              /\ DOMAIN JsonOf(resp.served) = {"ip_address"}

\* C7: a refresh cycle that fails is reported and leaves the scheduler
\* thread running, ready for the next tick.
C7_FailedCycleKeepsTimer ==
    (IsSome(lastCycle) /\ Unwrap(lastCycle).outcome # "ok")
        => /\ Unwrap(lastCycle).reported
           /\ timerAlive
           /\ upc # "dead"

\* What a subdivision list yields at position i (from 1) for a language:
\* the code and the name of the element there, empty strings if there is
\* none or it lacks them.
SubdivList == IF IsSome(geo.subdivisions) THEN Unwrap(geo.subdivisions) ELSE <<>>

CodeAt(list, i) ==
    IF i <= Len(list) /\ IsSome(list[i].iso_code) THEN Unwrap(list[i].iso_code)
    ELSE ""

NameAt(list, i, language) ==
    IF /\ i <= Len(list)
       /\ IsSome(list[i].names)
       /\ language \in DOMAIN Unwrap(list[i].names)
    THEN Unwrap(list[i].names)[language]
    ELSE ""

\* The language a request asks for: its lang parameter, en without one.
Requested(request) ==
    IF request.query.lang = None THEN "en" ELSE Unwrap(request.query.lang)

\* C8: in a resolved response region_* comes from the first subdivision and
\* province_* from the second, each empty where the list is too short, and
\* the subdivisions after the second change no field of the response.
C8_SubdivisionsByPosition ==
    (Served /\ resp.resolved)
        => LET json == JsonOf(resp.served)
               l == Requested(resp.started.request)
           IN  /\ json.region_code = CodeAt(SubdivList, 1)
               /\ json.region_name = NameAt(SubdivList, 1, l)
               /\ json.province_code = CodeAt(SubdivList, 2)
               /\ json.province_name = NameAt(SubdivList, 2, l)
               /\ (Len(SubdivList) = 0
                       => /\ json.region_code = "" /\ json.region_name = ""
                          /\ json.province_code = "" /\ json.province_name = "")
               /\ (Len(SubdivList) = 1
                       => json.province_code = "" /\ json.province_name = "")
               /\ (Len(SubdivList) > 2
                       => json = ResolvedIPResponse(
                                     json.ip_address,
                                     [geo EXCEPT !.subdivisions =
                                         Some(SubSeq(SubdivList, 1, 2))],
                                     l))

C8_Witness ==
    /\ Served
    /\ resp.resolved
    /\ Len(SubdivList) > 2
    /\ SubdivList[1] = SubA /\ SubdivList[2] = SubC /\ SubdivList[3] = SubB
    /\ JsonOf(resp.served).region_name = "Bavaria"
    /\ JsonOf(resp.served).province_code = ""

\* The name maps behind the four localized fields of a response.
NameMapOf(entity) ==
    IF IsSome(entity) /\ IsSome(Unwrap(entity).names) THEN Unwrap(entity).names
    ELSE None

Localized ==
    [country_name  |-> NameMapOf(geo.country),
     city_name     |-> NameMapOf(geo.city),
     region_name   |-> IF Len(SubdivList) > 0 THEN SubdivList[1].names ELSE None,
     province_name |-> IF Len(SubdivList) > 1 THEN SubdivList[2].names ELSE None]

\* C9: each localized name field of a resolved response is present; it is
\* the empty string when the entity, its name map, or the map's entry for
\* the requested language (en without a lang parameter) is missing, and
\* otherwise the entry for that language: never the name of another one.
C9_LocalizedNames ==
    (Served /\ resp.resolved)
        => LET json == JsonOf(resp.served)
               l == Requested(resp.started.request)
           IN  \A f \in DOMAIN Localized :
                   /\ f \in DOMAIN json
                   /\ IF IsSome(Localized[f]) /\ l \in DOMAIN Unwrap(Localized[f])
                      THEN json[f] = Unwrap(Localized[f])[l]
                      ELSE json[f] = ""
                   /\ IsSome(Localized[f])
                          => \A k \in DOMAIN Unwrap(Localized[f]) \ {l} :
                                 json[f] # Unwrap(Localized[f])[k]

C9_Witness ==
    /\ Served
    /\ resp.resolved
    /\ resp.started.request.query.lang = Some("fr")
    /\ LocalizedName(geo.country, "en") = "Germany"
    /\ JsonOf(resp.served).country_name = ""
    /\ JsonOf(resp.served).city_name = ""

\* C10: without a license no tick makes an outbound request or touches the
\* directory, and every refresh returns Ok without a report.
C10_NoLicenseNoOp ==
    ~license
        => /\ netCalls = 0
           /\ files = InitFiles(dbName)
           /\ inodes = InitInodes
           /\ upc = "idle"
           /\ timerAlive
           /\ IsSome(lastCycle)
                  => /\ Unwrap(lastCycle).outcome = "ok"
                     /\ ~Unwrap(lastCycle).reported
                     /\ Unwrap(lastCycle).after = Unwrap(lastCycle).before

C10_Witness ==
    /\ ~license
    /\ ticks > 1
    /\ IsSome(lastCycle)
    /\ LiveFile = [inode |-> 1, content |-> Mmdb("startup", TRUE)]

\* The media type of a Content-Type value, by inspection.
MediaType(content_type) ==
    IF content_type = "application/javascript; charset=utf-8"
    THEN "application/javascript"
    ELSE IF content_type = "application/json; charset=utf-8"
    THEN "application/json"
    ELSE "other"

\* C11: with a callback the body of a served response is ';', the callback,
\* '(', the JSON and ');' and its type is application/javascript; without
\* one the body is the JSON alone and its type application/json; the status
\* is 200 either way, for resolved and unresolved lookups alike.
C11_OutputFraming ==
    Served
        => LET callback == resp.started.request.query.callback
               body == resp.served.body
           IN  /\ resp.served.status = 200
               /\ IF IsSome(callback)
                  THEN /\ Len(body) = 5
                       /\ body[1] = ";" /\ body[2] = Unwrap(callback)
                       /\ body[3] = "(" /\ body[5] = ");"
                       /\ body[4].ip_address = resp.started.ip_address
                       /\ MediaType(resp.served.content_type)
                              = "application/javascript"
                  ELSE /\ Len(body) = 1
                       /\ body[1].ip_address = resp.started.ip_address
                       /\ MediaType(resp.served.content_type) = "application/json"

C11_Witness ==
    /\ Served
    /\ ~resp.resolved
    /\ resp.started.request.query.callback = Some("cb")
    /\ resp.served.body = <<";", "cb", "(", [ip_address |-> S5555], ");">>

NoSource(request) ==
    /\ ~HasValidQueryIp(request)
    /\ request.headers.realip = None
    /\ request.remote_addr = None

\* C15: a request with no source for the address is failed by
\* ip_address_to_resolve (the expect of line 97): it never gets to the
\* lookup, is never answered, and fails in no other place.
C15_NoSourceFailsRequest ==
    /\ inflight # NoRequest => ~NoSource(inflight.request)
    /\ Served => ~NoSource(resp.started.request)
    /\ "fault" \in DOMAIN resp => ~NoSource(resp.request)
    /\ Panicked => (resp.line = 97 <=> NoSource(resp.request))
    /\ (Panicked /\ resp.line = 97) => inflight = NoRequest

C15_Witness ==
    /\ Panicked
    /\ resp.line = 97
    /\ resp.request.query.ip = Some(SNotIp)
    /\ resp.request.headers = [realip |-> None, fwd |-> Some(S5555)]
    /\ resp.request.remote_addr = None

\* C16: X-Forwarded-For is honored like X-Real-IP: with no query ip that is a
\* literal and no X-Real-IP header, a request that carries X-Forwarded-For
\* is resolved for that header's value, not for the peer's host segment,
\* and does not fail for want of a source.
C16_ForwardedForHonored ==
    /\ (/\ inflight # NoRequest
        /\ ~HasValidQueryIp(inflight.request)
        /\ inflight.request.headers.realip = None
        /\ IsSome(inflight.request.headers.fwd))
           => inflight.ip_address = Unwrap(inflight.request.headers.fwd)
    /\ (Panicked /\ resp.line = 97) => ~IsSome(resp.request.headers.fwd)

\* C17: whatever the database path is called, the refresher downloads and
\* extracts to paths other than the live path, and the live path always
\* holds a completely written database file.
C17_LivePathWrittenOnlyByRename ==
    /\ upc \in {"create", "len", "read", "open", "entries"}
           => TarName(editions[cyc.i]) # dbName
    /\ upc \in {"unpack", "copy", "rename"} => cyc.dlname # dbName
    /\ files[dbName] # 0
    /\ inodes[files[dbName]].kind = "mmdb"
    /\ inodes[files[dbName]].whole

\* The archive being read has no entry of the name the edition expects.
ArchiveLacksEntry ==
    LET content == inodes[cyc.archive]
    IN  /\ content.kind = "targz"
        /\ \A k \in 1..Len(content.entries) :
               ~PathEndsWith(content.entries[k].path, MmdbName(editions[cyc.i]))

\* C18: a cycle whose archive has no entry of the expected name fails:
\* when update_db returns from reading such an archive it returns an error,
\* the error is reported, and the live database is as it was.
C18_MissingEntryIsFailure ==
    [][(upc = "entries" /\ ArchiveLacksEntry /\ upc' = "idle")
           => /\ Unwrap(lastCycle').outcome = "err"
              /\ Unwrap(lastCycle').reported
              /\ Unwrap(lastCycle').after = Unwrap(lastCycle').before]_vars

\* C19: for one edition in one cycle at most one archive entry is unpacked
\* and at most one rename onto the live path is made, whatever the archive
\* holds, and an entry that is unpacked has the expected name.
C19_OneEntryPerEdition ==
    /\ cyc.unpacks <= 1
    /\ cyc.renames <= 1
    /\ IsSome(lastCycle) => Unwrap(lastCycle).renames <= 1
    /\ upc \in {"unpack", "copy", "rename"}
           => PathEndsWith(inodes[cyc.archive].entries[cyc.pos + 1].path,
                           MmdbName(editions[cyc.i]))

\* C20: the steps of a cycle are ordered: the archive is read only once the
\* body received has been written to the temporary archive file, the rename
\* is made only once the entry is unpacked to its end, and a cycle that
\* failed has installed nothing.
C20_DownloadExtractInstallInOrder ==
    /\ upc \in {"open", "entries", "unpack", "copy", "rename"}
           => inodes[cyc.file] = TarGz(Unwrap(cyc.resp).archive,
                                       Unwrap(cyc.resp).truncated)
    /\ upc = "rename"
           => /\ files[cyc.dlname] # 0
              /\ inodes[files[cyc.dlname]].whole
    /\ (IsSome(lastCycle) /\ Unwrap(lastCycle).outcome # "ok")
           => Unwrap(lastCycle).renames = 0

=============================================================================
